---- MODULE Spec2Model ----
(***************************************************************************)
(* A model of perf/smallbank_workload/src/playlist.rs: the Smallbank       *)
(* playlist generator (create_smallbank_playlist and its iterator), the    *)
(* conversions between SmallbankTransactionPayload and Yaml, and the       *)
(* signing loop of process_smallbank_playlist.                             *)
(***************************************************************************)
EXTENDS Integers, Sequences, FiniteSets, TLC

(***************************************************************************)
(* Bounds of the model.                                                    *)
(***************************************************************************)
MaxAccounts == 2
MaxTransactions == 2
MaxSeed == 1
\* the random source yields words in 0..RngWords-1
RngWords == 5
\* draws a seeded random source may be asked for in one run of the model
MaxDraws == 8
\* calls to next() after the iterator is exhausted
MaxNoneCalls == 2
\* elements of a playlist handed to the conversions
MaxPlaylist == 2

(***************************************************************************)
(* Program constants.                                                      *)
(***************************************************************************)
TYPE_LOW == 2
TYPE_HIGH == 7
AMOUNT_LOW == 10
AMOUNT_HIGH == 200
INITIAL_BALANCE == 1000000
NAME_WIDTH == 6

VARIABLES
    args,       \* the arguments of the generation call
    iter,       \* the SmallbankGeneratingIter
    pc,         \* where the consumer of the iterator is
    loc,        \* locals of a call of next() that is inside the resampling loop
    yielded,    \* the payloads next() has returned so far, in order
    nones,      \* the number of times next() has returned None
    reference,  \* the payloads of the previous generation call with the same arguments
    run         \* 1 for the first generation call, 2 for the repeated one

genVars == <<args, iter, pc, loc, yielded, nones, reference, run>>

VARIABLES
    records,    \* a sequence of payloads handed to the conversion to Yaml
    doc,        \* a playlist: the Yaml array of the elements
    cpc,        \* where the conversions are
    decoded     \* what read_smallbank_playlist made of doc

codecVars == <<records, doc, cpc, decoded>>

VARIABLES
    input,      \* the playlist input of process_smallbank_playlist
    payloads,   \* the payloads read from it
    ppc,        \* where process_smallbank_playlist is
    result,     \* what it returned
    output,     \* the transactions written to the output, in order
    clock,      \* the last reading of start.elapsed(): seconds, nanoseconds
    pidx,       \* the place in payloads of the payload the loop is at, from 1
    torn        \* the output ends with a part of a transaction whose writing failed

procVars == <<input, payloads, ppc, result, output, clock, pidx, torn>>

vars == <<genVars, codecVars, procVars>>

(***************************************************************************)
(* Integers of the program.  The counters of the iterator and the numbers  *)
(* the random source is asked for are small and are plain integers.  The   *)
(* integer fields of a payload and of a Yaml value are 32- and 64-bit      *)
(* machine integers: the integer q * 2^30 + r, 0 <= r < 2^30, is the pair  *)
(* <<q, r>>, so that every u32 (q in 0..3) and every i32 (q in -2..1) has  *)
(* a value in the model and the casts between them are the program's.      *)
(***************************************************************************)
Limb == 2 ^ 30

\* the machine integer of a small integer n, -2^30 <= n < 2^30
Wide(n) == IF n >= 0 THEN <<0, n>> ELSE <<-1, n + Limb>>

\* the small integer of a machine integer
Narrow(w) == w[1] * Limb + w[2]

\* `x as u32`: x modulo 2^32
AsU32(w) == <<w[1] % 4, w[2]>>

\* `x as i32`: x modulo 2^32, taken in -2^31 .. 2^31 - 1
AsI32(w) == <<((w[1] + 2) % 4) - 2, w[2]>>

\* `x as i64` of a u32 or an i32: the same integer
AsI64(w) == w

\* `x as usize` of an i32, usize being 64 bits wide: 2^64 + x for a negative x,
\* here x with the mark of the wrap
AsUsize(w) == <<w[1] < 0, w>>

(***************************************************************************)
(* Option<i32>                                                             *)
(***************************************************************************)
None == [some |-> FALSE]
Some(v) == [some |-> TRUE, v |-> v]

(***************************************************************************)
(* The random source.  A source seeded from a value is a function of that  *)
(* value and of the number of words drawn so far; a source seeded from     *)
(* the system's entropy can yield any word at any draw.                    *)
(***************************************************************************)
from_seed(s) == [kind |-> "seeded", s |-> s, n |-> 0]

StdRng_new == [kind |-> "entropy"]

\* the n-th word of the source seeded with s
IsaacWord(s, n) ==
    LET x == (s[1][2][2] % 1000) + (IF s[1][1] THEN 1 ELSE 0)
    IN  ((x + 2) * (n + 1) + n * n + 1) % RngWords

Words(r) == IF r.kind = "seeded" THEN {IsaacWord(r.s, r.n)} ELSE 0 .. (RngWords - 1)

Advance(r) == IF r.kind = "seeded" THEN [r EXCEPT !.n = r.n + 1] ELSE r

\* the model stops a seeded source after MaxDraws words
CanDraw(r, k) == r.kind = "seeded" => r.n + k <= MaxDraws

\* rng.gen_range(low, high): the outcomes [v, rng]; none when low >= high,
\* where gen_range panics
gen_range(r, low, high) ==
    IF Narrow(low) >= Narrow(high) THEN {}
    ELSE {[v |-> Wide(Narrow(low) + (w % (Narrow(high) - Narrow(low)))),
           rng |-> Advance(r)] : w \in Words(r)}

(***************************************************************************)
(* SmallbankTransactionPayload                                             *)
(***************************************************************************)
Unset == [set |-> FALSE]

\* SmallbankTransactionPayload::new()
NewPayload ==
    [payload_type |-> "CREATE_ACCOUNT",
     create_account |-> Unset, deposit_checking |-> Unset, write_check |-> Unset,
     transact_savings |-> Unset, send_payment |-> Unset, amalgamate |-> Unset]

CreateAccountData(id, name, savings, checking) ==
    [set |-> TRUE, customer_id |-> id, customer_name |-> name,
     initial_savings_balance |-> savings, initial_checking_balance |-> checking]

AmountData(id, amount) == [set |-> TRUE, customer_id |-> id, amount |-> amount]

SendPaymentData(src, dst, amount) ==
    [set |-> TRUE, source_customer_id |-> src, dest_customer_id |-> dst, amount |-> amount]

AmalgamateData(src, dst) ==
    [set |-> TRUE, source_customer_id |-> src, dest_customer_id |-> dst]

\* the payload type the generator maps a drawn number to
PayloadTypeOf(k) ==
    CASE k = 2 -> "DEPOSIT_CHECKING"
      [] k = 3 -> "WRITE_CHECK"
      [] k = 4 -> "TRANSACT_SAVINGS"
      [] k = 5 -> "SEND_PAYMENT"
      [] k = 6 -> "AMALGAMATE"
      [] OTHER -> "panic"

(***************************************************************************)
(* format!("customer_{:06}", n)                                            *)
(***************************************************************************)
DigitChar(d) == <<"0", "1", "2", "3", "4", "5", "6", "7", "8", "9">>[d + 1]

RECURSIVE Decimal(_)
Decimal(n) == IF n < 10 THEN DigitChar(n) ELSE Decimal(n \div 10) \o DigitChar(n % 10)

RECURSIVE PadLeft(_, _)
PadLeft(s, width) == IF Len(s) >= width THEN s ELSE PadLeft("0" \o s, width)

CustomerName(n) == "customer_" \o PadLeft(Decimal(n), NAME_WIDTH)

(***************************************************************************)
(* create_smallbank_playlist                                               *)
(***************************************************************************)
\* create_smallbank_playlist taking no account of the seed
create_smallbank_playlist_Unseeded(num_accounts, num_transactions, seed) ==
    [num_accounts |-> num_accounts,
     current_account |-> 0,
     num_transactions |-> num_transactions,
     current_transaction |-> 0,
     rng |-> StdRng_new]

create_smallbank_playlist(num_accounts, num_transactions, seed) ==
    [num_accounts |-> num_accounts,
     current_account |-> 0,
     num_transactions |-> num_transactions,
     current_transaction |-> 0,
     rng |-> IF seed.some THEN from_seed(<<AsUsize(Wide(seed.v))>>) ELSE StdRng_new]

\* CreateAccountPayload numbering the customers from 1
CreateAccountPayload_FromOne(current_account) ==
    [NewPayload EXCEPT !.create_account =
        CreateAccountData(AsU32(Wide(current_account + 1)),
                          CustomerName(current_account + 1),
                          Wide(INITIAL_BALANCE), Wide(INITIAL_BALANCE))]

\* lines 244-252: the payload of the account numbered current_account
CreateAccountPayload(current_account) ==
    [NewPayload EXCEPT !.create_account =
        CreateAccountData(AsU32(Wide(current_account)),
                          CustomerName(current_account),
                          Wide(INITIAL_BALANCE), Wide(INITIAL_BALANCE))]

\* the tests of next()
HasMoreAccounts(it) == it.current_account < it.num_accounts

\* HasMoreTransactions off by one
HasMoreTransactions_OffByOne(it) == it.current_transaction <= it.num_transactions

HasMoreTransactions(it) == it.current_transaction < it.num_transactions

(***************************************************************************)
(* make_smallbank_*_txn: the outcomes [data, rng] of each; none when the   *)
(* first gen_range panics                                                  *)
(***************************************************************************)
IdAndAmount(r, num_accounts) ==
    UNION {{[data |-> AmountData(id.v, amount.v), rng |-> amount.rng] :
              amount \in gen_range(id.rng, Wide(AMOUNT_LOW), Wide(AMOUNT_HIGH))} :
           id \in gen_range(r, Wide(0), AsU32(Wide(num_accounts)))}

make_smallbank_deposit_checking_txn(r, num_accounts) == IdAndAmount(r, num_accounts)

make_smallbank_write_check_txn(r, num_accounts) == IdAndAmount(r, num_accounts)

make_smallbank_transact_savings_txn(r, num_accounts) == IdAndAmount(r, num_accounts)

\* SourceId drawing from 0 ..= num_accounts
SourceId_Inclusive(r, num_accounts) ==
    gen_range(r, Wide(0), AsU32(Wide(num_accounts + 1)))

\* the first line of make_smallbank_send_payment_txn and of
\* make_smallbank_amalgamate_txn: the source id
SourceId(r, num_accounts) == gen_range(r, Wide(0), AsU32(Wide(num_accounts)))

\* next_non_matching_in_range without the loop: the first number drawn is taken
next_non_matching_in_range_NoLoop(r, max, exclude) ==
    {[selected |-> o.v, rng |-> o.rng, again |-> FALSE] :
        o \in gen_range(r, Wide(0), max)}

\* one pass of the loop of next_non_matching_in_range: the number selected, and
\* whether the loop goes round again
next_non_matching_in_range(r, max, exclude) ==
    {[selected |-> o.v, rng |-> o.rng, again |-> (o.v = exclude)] :
        o \in gen_range(r, Wide(0), max)}

\* the rest of make_smallbank_send_payment_txn, once the destination is selected
SendPaymentRest(r, source_id, dest_id) ==
    {[data |-> SendPaymentData(source_id, dest_id, amount.v), rng |-> amount.rng] :
        amount \in gen_range(r, Wide(AMOUNT_LOW), Wide(AMOUNT_HIGH))}

\* the rest of make_smallbank_amalgamate_txn, once the destination is selected
AmalgamateRest(r, source_id, dest_id) ==
    {[data |-> AmalgamateData(source_id, dest_id), rng |-> r]}

\* payload.set_payload_type(t) and the setter of the data of that type
WithData(t, data) ==
    LET p == [NewPayload EXCEPT !.payload_type = t]
    IN  CASE t = "CREATE_ACCOUNT" -> [p EXCEPT !.create_account = data]
          [] t = "DEPOSIT_CHECKING" -> [p EXCEPT !.deposit_checking = data]
          [] t = "WRITE_CHECK" -> [p EXCEPT !.write_check = data]
          [] t = "TRANSACT_SAVINGS" -> [p EXCEPT !.transact_savings = data]
          [] t = "SEND_PAYMENT" -> [p EXCEPT !.send_payment = data]
          [] t = "AMALGAMATE" -> [p EXCEPT !.amalgamate = data]

NoLoc == [payload_type |-> "", max |-> Wide(0), source_id |-> Wide(0)]

(***************************************************************************)
(* The generator: a call of create_smallbank_playlist and the calls of     *)
(* next() on the iterator it returns.                                      *)
(***************************************************************************)
Seeds == {None} \cup {Some(v) : v \in 0 .. MaxSeed}

CodecIdle ==
    /\ records = <<>> /\ cpc = "idle" /\ decoded = [kind |-> "none"]
    /\ doc = [read_ok |-> TRUE, scan_ok |-> TRUE, docs |-> <<>>]

ProcIdle ==
    /\ input = [read_ok |-> TRUE, scan_ok |-> TRUE, docs |-> <<>>]
    /\ payloads = <<>> /\ ppc = "idle" /\ result = [kind |-> "none"]
    /\ output = <<>> /\ clock = <<0, 0>> /\ pidx = 0 /\ torn = FALSE

GenInit ==
    /\ args \in [num_accounts : 0 .. MaxAccounts,
                 num_transactions : 0 .. MaxTransactions,
                 seed : Seeds]
    /\ iter = create_smallbank_playlist(args.num_accounts, args.num_transactions, args.seed)
    /\ pc = "ready"
    /\ loc = NoLoc
    /\ yielded = <<>>
    /\ nones = 0
    /\ reference = <<>>
    /\ run = 1

Init == GenInit /\ CodecIdle /\ ProcIdle

\* next(), first branch: a CreateAccount payload
NextCreateAccount ==
    /\ pc = "ready"
    /\ HasMoreAccounts(iter)
    /\ yielded' = Append(yielded, CreateAccountPayload(iter.current_account))
    /\ iter' = [iter EXCEPT !.current_account = @ + 1]
    /\ UNCHANGED <<args, pc, loc, nones, reference, run, codecVars, procVars>>

\* next(), second branch: the payload type is drawn, then the data of a payload
\* with one customer, or the source id of a payload with two
NextOperation ==
    /\ pc = "ready"
    /\ ~HasMoreAccounts(iter)
    /\ HasMoreTransactions(iter)
    /\ CanDraw(iter.rng, 3)
    /\ \E t \in gen_range(iter.rng, Wide(TYPE_LOW), Wide(TYPE_HIGH)) :
         LET payload_type == PayloadTypeOf(Narrow(t.v))
             single == CASE payload_type = "DEPOSIT_CHECKING" ->
                               make_smallbank_deposit_checking_txn(t.rng, iter.num_accounts)
                         [] payload_type = "WRITE_CHECK" ->
                               make_smallbank_write_check_txn(t.rng, iter.num_accounts)
                         [] payload_type = "TRANSACT_SAVINGS" ->
                               make_smallbank_transact_savings_txn(t.rng, iter.num_accounts)
                         [] OTHER -> {}
             source == SourceId(t.rng, iter.num_accounts)
         IN  IF payload_type \in {"DEPOSIT_CHECKING", "WRITE_CHECK", "TRANSACT_SAVINGS"}
             THEN IF single = {}
                  THEN /\ pc' = "panicked"
                       /\ iter' = [iter EXCEPT !.rng = t.rng]
                       /\ UNCHANGED <<loc, yielded>>
                  ELSE \E o \in single :
                       /\ yielded' = Append(yielded, WithData(payload_type, o.data))
                       /\ iter' = [iter EXCEPT !.rng = o.rng, !.current_transaction = @ + 1]
                       /\ UNCHANGED <<pc, loc>>
             ELSE IF payload_type \in {"SEND_PAYMENT", "AMALGAMATE"}
             THEN IF source = {}
                  THEN /\ pc' = "panicked"
                       /\ iter' = [iter EXCEPT !.rng = t.rng]
                       /\ UNCHANGED <<loc, yielded>>
                  ELSE \E o \in source :
                       /\ pc' = "resample"
                       /\ loc' = [payload_type |-> payload_type,
                                  max |-> AsU32(Wide(iter.num_accounts)),
                                  source_id |-> o.v]
                       /\ iter' = [iter EXCEPT !.rng = o.rng]
                       /\ UNCHANGED yielded
             ELSE /\ pc' = "panicked"
                  /\ iter' = [iter EXCEPT !.rng = t.rng]
                  /\ UNCHANGED <<loc, yielded>>
    /\ UNCHANGED <<args, nones, reference, run, codecVars, procVars>>

\* one pass of the loop of next_non_matching_in_range and, when it ends the loop,
\* the rest of the call of next() that is in it
Resample ==
    /\ pc = "resample"
    /\ CanDraw(iter.rng, 2)
    /\ \E o \in next_non_matching_in_range(iter.rng, loc.max, loc.source_id) :
         IF o.again
         THEN /\ iter' = [iter EXCEPT !.rng = o.rng]
              /\ UNCHANGED <<pc, loc, yielded>>
         ELSE \E d \in (IF loc.payload_type = "SEND_PAYMENT"
                         THEN SendPaymentRest(o.rng, loc.source_id, o.selected)
                         ELSE AmalgamateRest(o.rng, loc.source_id, o.selected)) :
              /\ yielded' = Append(yielded, WithData(loc.payload_type, d.data))
              /\ iter' = [iter EXCEPT !.rng = d.rng, !.current_transaction = @ + 1]
              /\ pc' = "ready"
              /\ loc' = NoLoc
    /\ UNCHANGED <<args, nones, reference, run, codecVars, procVars>>

\* next(), last branch: None
NextNone ==
    /\ pc = "ready"
    /\ ~HasMoreAccounts(iter)
    /\ ~HasMoreTransactions(iter)
    /\ nones < MaxNoneCalls
    /\ nones' = nones + 1
    /\ UNCHANGED <<args, iter, pc, loc, yielded, reference, run, codecVars, procVars>>

Next == NextCreateAccount \/ NextOperation \/ Resample \/ NextNone

Spec == Init /\ [][Next]_vars

\* generate_smallbank_playlist called again with the same arguments, a seed
\* among them, after the first call has collected the whole sequence
Regenerate ==
    /\ run = 1
    /\ args.seed.some
    /\ pc = "ready"
    /\ nones > 0
    /\ reference' = yielded
    /\ run' = 2
    /\ iter' = create_smallbank_playlist(args.num_accounts, args.num_transactions, args.seed)
    /\ yielded' = <<>>
    /\ nones' = 0
    /\ UNCHANGED <<args, pc, loc, codecVars, procVars>>

NextDet == Next \/ Regenerate

SpecDet == Init /\ [][NextDet]_vars

(***************************************************************************)
(* Properties of the generator                                             *)
(***************************************************************************)
\* the arguments the specification takes as valid: there are no operations to
\* generate, or there are at least two accounts for them to refer to
ValidArgs == args.num_transactions = 0 \/ args.num_accounts >= 2

IsCreateAccount(p) == p.payload_type = "CREATE_ACCOUNT" /\ p.create_account.set

\* "customer_" followed by i in decimal, padded with zeros to six digits
ExpectedName(i) ==
    LET d == ToString(i)
    IN  "customer_" \o <<"00000", "0000", "000", "00", "0", "">>[Len(d)] \o d

\* C1: the sequence has exactly num_accounts + num_transactions payloads:
\* next() never yields more and returns None only after it has yielded that
\* many; for valid arguments no call of next() panics, and a call that is in
\* the resampling loop can leave it.
C1_ExactLength ==
    /\ Len(yielded) <= args.num_accounts + args.num_transactions
    /\ nones > 0 => Len(yielded) = args.num_accounts + args.num_transactions
    /\ ValidArgs =>
           /\ pc # "panicked"
           /\ pc = "resample" =>
                  \E o \in next_non_matching_in_range(StdRng_new, loc.max, loc.source_id) :
                      ~o.again

C1_Witness ==
    /\ args.num_accounts >= 2 /\ args.num_transactions >= 1
    /\ nones >= 2
    /\ Len(yielded) = args.num_accounts + args.num_transactions

\* C2: the first num_accounts payloads are CreateAccount payloads, the i-th
\* (from 0) with customer_id i, customer_name "customer_" and i padded to six
\* digits, and both balances 1,000,000; no later payload is a CreateAccount.
C2_AccountsFirst ==
    \A i \in 1 .. Len(yielded) :
        IF i <= args.num_accounts
        THEN /\ IsCreateAccount(yielded[i])
             /\ yielded[i].create_account.customer_id = <<0, i - 1>>
             /\ yielded[i].create_account.customer_name = ExpectedName(i - 1)
             /\ yielded[i].create_account.initial_savings_balance = <<0, 1000000>>
             /\ yielded[i].create_account.initial_checking_balance = <<0, 1000000>>
        ELSE /\ yielded[i].payload_type # "CREATE_ACCOUNT"
             /\ ~yielded[i].create_account.set

C2_Witness ==
    /\ args.num_accounts >= 2
    /\ Len(yielded) > args.num_accounts
    /\ yielded[2].create_account.customer_name = "customer_000001"

\* C3: every SendPayment and every Amalgamate payload the generator yields has
\* a source customer different from its destination customer.
C3_DistinctParties ==
    \A i \in 1 .. Len(yielded) :
        /\ yielded[i].payload_type = "SEND_PAYMENT" =>
               /\ yielded[i].send_payment.set
               /\ yielded[i].send_payment.source_customer_id
                      # yielded[i].send_payment.dest_customer_id
        /\ yielded[i].payload_type = "AMALGAMATE" =>
               /\ yielded[i].amalgamate.set
               /\ yielded[i].amalgamate.source_customer_id
                      # yielded[i].amalgamate.dest_customer_id

C3_Witness ==
    /\ args.num_accounts = 2
    /\ \E i \in 1 .. Len(yielded) : yielded[i].payload_type = "SEND_PAYMENT"

\* the customer ids a payload of one of the five operation types refers to
OperationIds(p) ==
    CASE p.payload_type = "DEPOSIT_CHECKING" -> {p.deposit_checking.customer_id}
      [] p.payload_type = "WRITE_CHECK" -> {p.write_check.customer_id}
      [] p.payload_type = "TRANSACT_SAVINGS" -> {p.transact_savings.customer_id}
      [] p.payload_type = "SEND_PAYMENT" ->
            {p.send_payment.source_customer_id, p.send_payment.dest_customer_id}
      [] p.payload_type = "AMALGAMATE" ->
            {p.amalgamate.source_customer_id, p.amalgamate.dest_customer_id}

\* the data of the type of p is set, and no other
OnlyOwnDataSet(p) ==
    /\ p.deposit_checking.set <=> p.payload_type = "DEPOSIT_CHECKING"
    /\ p.write_check.set <=> p.payload_type = "WRITE_CHECK"
    /\ p.transact_savings.set <=> p.payload_type = "TRANSACT_SAVINGS"
    /\ p.send_payment.set <=> p.payload_type = "SEND_PAYMENT"
    /\ p.amalgamate.set <=> p.payload_type = "AMALGAMATE"
    /\ ~p.create_account.set

\* C12: every payload yielded after the first num_accounts is of one of the five
\* operation types and refers only to customer ids in 0 .. num_accounts - 1,
\* each of them the id of a CreateAccount payload yielded before it.
C12_OperationsReferToAccounts ==
    \A i \in 1 .. Len(yielded) :
        i > args.num_accounts =>
            /\ yielded[i].payload_type \in
                   {"DEPOSIT_CHECKING", "WRITE_CHECK", "TRANSACT_SAVINGS",
                    "SEND_PAYMENT", "AMALGAMATE"}
            /\ OnlyOwnDataSet(yielded[i])
            /\ \A id \in OperationIds(yielded[i]) :
                   /\ id[1] = 0 /\ id[2] >= 0 /\ id[2] < args.num_accounts
                   /\ \E j \in 1 .. (i - 1) :
                          /\ IsCreateAccount(yielded[j])
                          /\ yielded[j].create_account.customer_id = id

C12_Witness ==
    /\ args.num_accounts = 2
    /\ Len(yielded) = 4
    /\ yielded[3].payload_type = "AMALGAMATE"
    /\ yielded[3].amalgamate.source_customer_id = <<0, 1>>
    /\ yielded[4].payload_type = "DEPOSIT_CHECKING"
    /\ yielded[4].deposit_checking.customer_id = <<0, 1>>

\* C4: with one account, a call of next() that is in the resampling loop can
\* leave it: some number the random source can yield differs from the source id.
C4_DegenerateTerminates ==
    (args.num_accounts = 1 /\ args.num_transactions > 0 /\ pc = "resample") =>
        \E o \in next_non_matching_in_range(StdRng_new, loc.max, loc.source_id) : ~o.again

\* C5: with no account and operations to generate, the generator neither
\* aborts the process nor yields an operation payload.
C5_NoAccountsIsAnError ==
    (args.num_accounts = 0 /\ args.num_transactions > 0) =>
        /\ pc # "panicked"
        /\ yielded = <<>>

(***************************************************************************)
(* Yaml values: Yaml::Integer, Yaml::String, Yaml::Hash (the entries in    *)
(* the order of insertion) and Yaml::Array                                 *)
(***************************************************************************)
YInteger(w) == [tag |-> "Integer", i |-> w, s |-> ""]

YString(str) == [tag |-> "String", i |-> <<0, 0>>, s |-> str]

YHash(entries) == [tag |-> "Hash", entries |-> entries]

YArray(items) == [tag |-> "Array", items |-> items]

\* Yaml::from_str(name) of the names this file writes, none of which reads as a
\* number, a boolean or null
Yaml_from_str(name) == YString(name)

\* yaml.as_str(), yaml.as_i64(): Some(..) for a value of that kind
as_str(y) == IF y.tag = "String" THEN [some |-> TRUE, v |-> y.s] ELSE None

as_i64(y) == IF y.tag = "Integer" THEN [some |-> TRUE, v |-> y.i] ELSE None

\* the macro yaml_map!: the pairs inserted in order
yaml_map(pairs) == YHash([k \in 1 .. Len(pairs) |-> <<Yaml_from_str(pairs[k][1]), pairs[k][2]>>])

HasKey(entries, key) == \E k \in 1 .. Len(entries) : entries[k][1] = key

\* txn_hash[&key], for a key that is in the map
Lookup(entries, key) ==
    entries[CHOOSE k \in 1 .. Len(entries) : entries[k][1] = key][2]

\* payload.get_x(): the data set, or the default instance
DefaultCreateAccount == CreateAccountData(<<0, 0>>, "", <<0, 0>>, <<0, 0>>)

get_create_account(p) ==
    IF p.create_account.set THEN p.create_account ELSE DefaultCreateAccount

get_deposit_checking(p) ==
    IF p.deposit_checking.set THEN p.deposit_checking ELSE AmountData(<<0, 0>>, <<0, 0>>)

get_write_check(p) ==
    IF p.write_check.set THEN p.write_check ELSE AmountData(<<0, 0>>, <<0, 0>>)

get_transact_savings(p) ==
    IF p.transact_savings.set THEN p.transact_savings ELSE AmountData(<<0, 0>>, <<0, 0>>)

get_send_payment(p) ==
    IF p.send_payment.set THEN p.send_payment
    ELSE SendPaymentData(<<0, 0>>, <<0, 0>>, <<0, 0>>)

get_amalgamate(p) ==
    IF p.amalgamate.set THEN p.amalgamate ELSE AmalgamateData(<<0, 0>>, <<0, 0>>)

(***************************************************************************)
(* impl From<SmallbankTransactionPayload> for Yaml                         *)
(***************************************************************************)
YamlFromPayload(payload) ==
    CASE payload.payload_type = "CREATE_ACCOUNT" ->
            LET data == get_create_account(payload)
            IN  yaml_map(<< <<"transaction_type", Yaml_from_str("create_account")>>,
                            <<"customer_id", YInteger(AsI64(data.customer_id))>>,
                            <<"customer_name", YString(data.customer_name)>>,
                            <<"initial_savings_balance",
                                YInteger(AsI64(data.initial_savings_balance))>>,
                            <<"initial_checking_balance",
                                YInteger(AsI64(data.initial_checking_balance))>> >>)
      [] payload.payload_type = "DEPOSIT_CHECKING" ->
            LET data == get_deposit_checking(payload)
            IN  yaml_map(<< <<"transaction_type", Yaml_from_str("deposit_checking")>>,
                            <<"customer_id", YInteger(AsI64(data.customer_id))>>,
                            <<"amount", YInteger(AsI64(data.amount))>> >>)
      [] payload.payload_type = "WRITE_CHECK" ->
            LET data == get_write_check(payload)
            IN  yaml_map(<< <<"transaction_type", Yaml_from_str("write_check")>>,
                            <<"customer_id", YInteger(AsI64(data.customer_id))>>,
                            <<"amount", YInteger(AsI64(data.amount))>> >>)
      [] payload.payload_type = "TRANSACT_SAVINGS" ->
            LET data == get_transact_savings(payload)
            IN  yaml_map(<< <<"transaction_type", Yaml_from_str("transact_savings")>>,
                            <<"customer_id", YInteger(AsI64(data.customer_id))>>,
                            <<"amount", YInteger(AsI64(data.amount))>> >>)
      [] payload.payload_type = "SEND_PAYMENT" ->
            LET data == get_send_payment(payload)
            IN  yaml_map(<< <<"transaction_type", Yaml_from_str("send_payment")>>,
                            <<"source_customer_id", YInteger(AsI64(data.source_customer_id))>>,
                            <<"dest_customer_id", YInteger(AsI64(data.dest_customer_id))>>,
                            <<"amount", YInteger(AsI64(data.amount))>> >>)
      [] payload.payload_type = "AMALGAMATE" ->
            LET data == get_amalgamate(payload)
            IN  yaml_map(<< <<"transaction_type", Yaml_from_str("amalgamate")>>,
                            <<"source_customer_id", YInteger(AsI64(data.source_customer_id))>>,
                            <<"dest_customer_id", YInteger(AsI64(data.dest_customer_id))>> >>)

(***************************************************************************)
(* impl From<&Yaml> for SmallbankTransactionPayload: the payload, or the   *)
(* panic the conversion ends in                                            *)
(***************************************************************************)
Converted(p) == [kind |-> "payload", payload |-> p]

Panic(msg) == [kind |-> "panic", msg |-> msg]

\* txn_hash[&Yaml::from_str(key)].as_i64().unwrap(): the panics of the index and
\* of the unwrap, or no panic
IntFieldPanic(entries, key) ==
    IF ~HasKey(entries, Yaml_from_str(key)) THEN "no entry found for key"
    ELSE IF ~as_i64(Lookup(entries, Yaml_from_str(key))).some
         THEN "called Option::unwrap on a None value"
         ELSE ""

StrFieldPanic(entries, key) ==
    IF ~HasKey(entries, Yaml_from_str(key)) THEN "no entry found for key"
    ELSE IF ~as_str(Lookup(entries, Yaml_from_str(key))).some
         THEN "called Option::unwrap on a None value"
         ELSE ""

\* the first panic among the fields read in order, or ""
RECURSIVE FirstPanic(_)
FirstPanic(msgs) ==
    IF msgs = <<>> THEN "" ELSE IF Head(msgs) # "" THEN Head(msgs) ELSE FirstPanic(Tail(msgs))

IntField(entries, key) == as_i64(Lookup(entries, Yaml_from_str(key))).v

StrField(entries, key) == as_str(Lookup(entries, Yaml_from_str(key))).v

\* the field kept or the panic
OrPanic(msg, p) == IF msg # "" THEN Panic(msg) ELSE Converted(p)

\* the arm Some("create_account")
DecodeCreateAccount(e) ==
    OrPanic(FirstPanic(<<IntFieldPanic(e, "customer_id"),
                         StrFieldPanic(e, "customer_name"),
                         IntFieldPanic(e, "initial_savings_balance"),
                         IntFieldPanic(e, "initial_checking_balance")>>),
            WithData("CREATE_ACCOUNT",
                     CreateAccountData(AsU32(IntField(e, "customer_id")),
                                       StrField(e, "customer_name"),
                                       AsU32(IntField(e, "initial_savings_balance")),
                                       AsU32(IntField(e, "initial_checking_balance")))))

\* the arm Some("deposit_checking")
DecodeDepositChecking(e) ==
    OrPanic(FirstPanic(<<IntFieldPanic(e, "customer_id"), IntFieldPanic(e, "amount")>>),
            WithData("DEPOSIT_CHECKING",
                     AmountData(AsU32(IntField(e, "customer_id")),
                                AsU32(IntField(e, "amount")))))

\* the arm Some("write_check")
DecodeWriteCheck(e) ==
    OrPanic(FirstPanic(<<IntFieldPanic(e, "customer_id"), IntFieldPanic(e, "amount")>>),
            WithData("WRITE_CHECK",
                     AmountData(AsU32(IntField(e, "customer_id")),
                                AsU32(IntField(e, "amount")))))

\* the arm Some("transact_savings") reading the amount as the other arms do
DecodeTransactSavings_Unsigned(e) ==
    OrPanic(FirstPanic(<<IntFieldPanic(e, "customer_id"), IntFieldPanic(e, "amount")>>),
            WithData("TRANSACT_SAVINGS",
                     AmountData(AsU32(IntField(e, "customer_id")),
                                AsU32(IntField(e, "amount")))))

\* the arm Some("transact_savings")
DecodeTransactSavings(e) ==
    OrPanic(FirstPanic(<<IntFieldPanic(e, "customer_id"), IntFieldPanic(e, "amount")>>),
            WithData("TRANSACT_SAVINGS",
                     AmountData(AsU32(IntField(e, "customer_id")),
                                AsI32(IntField(e, "amount")))))

\* the arm Some("send_payment")
DecodeSendPayment(e) ==
    OrPanic(FirstPanic(<<IntFieldPanic(e, "source_customer_id"),
                         IntFieldPanic(e, "dest_customer_id"),
                         IntFieldPanic(e, "amount")>>),
            WithData("SEND_PAYMENT",
                     SendPaymentData(AsU32(IntField(e, "source_customer_id")),
                                     AsU32(IntField(e, "dest_customer_id")),
                                     AsU32(IntField(e, "amount")))))

\* the arm Some("amalgamate")
DecodeAmalgamate(e) ==
    OrPanic(FirstPanic(<<IntFieldPanic(e, "source_customer_id"),
                         IntFieldPanic(e, "dest_customer_id")>>),
            WithData("AMALGAMATE",
                     AmalgamateData(AsU32(IntField(e, "source_customer_id")),
                                    AsU32(IntField(e, "dest_customer_id")))))

PayloadFromYaml(yaml) ==
    IF yaml.tag = "Hash"
    THEN LET e == yaml.entries
             key == Yaml_from_str("transaction_type")
         IN  IF ~HasKey(e, key) THEN Panic("no entry found for key")
             ELSE LET txn_type == as_str(Lookup(e, key))
                  IN  IF ~txn_type.some THEN Panic("No transaction_type specified")
                      ELSE CASE txn_type.v = "create_account" -> DecodeCreateAccount(e)
                             [] txn_type.v = "deposit_checking" -> DecodeDepositChecking(e)
                             [] txn_type.v = "write_check" -> DecodeWriteCheck(e)
                             [] txn_type.v = "transact_savings" -> DecodeTransactSavings(e)
                             [] txn_type.v = "send_payment" -> DecodeSendPayment(e)
                             [] txn_type.v = "amalgamate" -> DecodeAmalgamate(e)
                             [] OTHER -> Panic("unknown transaction_type: " \o txn_type.v)
    ELSE Panic("should be a hash map!")

(***************************************************************************)
(* A playlist input: whether reading it succeeds, whether what is read     *)
(* scans as Yaml, and the documents the loader makes of it                 *)
(***************************************************************************)
PlaylistInput(read_ok, scan_ok, docs) == [read_ok |-> read_ok, scan_ok |-> scan_ok, docs |-> docs]

\* the text emitter.dump writes for an array of elements, as an input: one
\* document, the array
DumpedPlaylist(items) == PlaylistInput(TRUE, TRUE, <<YArray(items)>>)

Ok(v) == [kind |-> "Ok", v |-> v]

Err(e) == [kind |-> "Err", error |-> e]

\* read_yaml
read_yaml(in) == IF in.read_ok THEN Ok(in) ELSE Err("IoError")

\* load_yaml_array: the elements, the error of the loader, or a panic
load_yaml_array(buf) ==
    IF ~buf.scan_ok THEN Err("YamlInputError")
    ELSE IF buf.docs = <<>> THEN Panic("removal index (is 0) should be < len (is 0)")
    ELSE IF buf.docs[1].tag # "Array" THEN Panic("called Option::unwrap on a None value")
    ELSE Ok(buf.docs[1].items)

\* the loop of read_smallbank_playlist handing over the payloads converted
\* before an element that cannot be converted
RECURSIVE ConvertAll_Prefix(_, _)
ConvertAll_Prefix(items, results) ==
    IF items = <<>> THEN Ok(results)
    ELSE LET c == PayloadFromYaml(Head(items))
         IN  IF c.kind = "panic" THEN Ok(results)
             ELSE ConvertAll_Prefix(Tail(items), Append(results, c.payload))

\* the loop of read_smallbank_playlist: the payloads, or the first panic
RECURSIVE ConvertAll(_, _)
ConvertAll(items, results) ==
    IF items = <<>> THEN Ok(results)
    ELSE LET c == PayloadFromYaml(Head(items))
         IN  IF c.kind = "panic" THEN c
             ELSE ConvertAll(Tail(items), Append(results, c.payload))

read_smallbank_playlist(in) ==
    LET buf == read_yaml(in)
    IN  IF buf.kind # "Ok" THEN buf
        ELSE LET yaml_array == load_yaml_array(buf.v)
             IN  IF yaml_array.kind # "Ok" THEN yaml_array
                 ELSE ConvertAll(yaml_array.v, <<>>)

\* the collection generate_smallbank_playlist makes of a sequence of payloads
RECURSIVE MapYaml(_)
MapYaml(ps) == IF ps = <<>> THEN <<>> ELSE <<YamlFromPayload(Head(ps))>> \o MapYaml(Tail(ps))

U32_MAX == <<3, Limb - 1>>

I32_MIN == <<-2, 0>>

I32_MAX == <<1, Limb - 1>>

\* payloads with the data of their type set, the integers at the ends of their types
SamplePayloads ==
    {WithData("CREATE_ACCOUNT", CreateAccountData(id, "customer_000000", b[1], b[2])) :
        id \in {<<0, 0>>, U32_MAX}, b \in {<<Wide(INITIAL_BALANCE), U32_MAX>>, <<Wide(0), Wide(5)>>}}
    \cup {WithData(t, AmountData(id, amount)) :
        t \in {"DEPOSIT_CHECKING", "WRITE_CHECK"}, id \in {Wide(5), U32_MAX},
        amount \in {Wide(AMOUNT_LOW), U32_MAX}}
    \cup {WithData("TRANSACT_SAVINGS", AmountData(id, amount)) :
        id \in {Wide(5), U32_MAX}, amount \in {I32_MIN, Wide(-5), Wide(50), I32_MAX}}
    \cup {WithData("SEND_PAYMENT", SendPaymentData(c[1], c[2], amount)) :
        c \in {<<Wide(0), Wide(5)>>, <<U32_MAX, Wide(0)>>}, amount \in {Wide(AMOUNT_LOW), U32_MAX}}
    \cup {WithData("AMALGAMATE", AmalgamateData(c[1], c[2])) :
        c \in {<<Wide(0), Wide(5)>>, <<U32_MAX, Wide(0)>>}}

\* elements of a playlist written by hand
HandElements ==
    {YamlFromPayload(WithData("DEPOSIT_CHECKING", AmountData(Wide(5), Wide(50)))),
     YamlFromPayload(WithData("AMALGAMATE", AmalgamateData(Wide(0), Wide(5)))),
     yaml_map(<< <<"transaction_type", YString("unknown_op")>> >>),
     yaml_map(<< <<"customer_id", YInteger(Wide(5))>>, <<"amount", YInteger(Wide(50))>> >>),
     yaml_map(<< <<"transaction_type", YInteger(Wide(5))>> >>),
     yaml_map(<< <<"transaction_type", YString("deposit_checking")>>,
                 <<"customer_id", YInteger(Wide(5))>> >>),
     yaml_map(<< <<"transaction_type", YString("deposit_checking")>>,
                 <<"customer_id", YString("five")>>, <<"amount", YInteger(Wide(50))>> >>),
     YString("deposit_checking")}

SeqsUpTo(S, n) == UNION {[1 .. k -> S] : k \in 0 .. n}

HandInputs ==
    {DumpedPlaylist(items) : items \in SeqsUpTo(HandElements, MaxPlaylist)}
    \cup {PlaylistInput(FALSE, TRUE, <<>>), PlaylistInput(TRUE, FALSE, <<>>),
          PlaylistInput(TRUE, TRUE, <<>>),
          PlaylistInput(TRUE, TRUE, <<YString("deposit_checking")>>)}

NoInput == PlaylistInput(TRUE, TRUE, <<>>)

NotRead == [kind |-> "none"]

GenIdle ==
    /\ args = [num_accounts |-> 0, num_transactions |-> 0, seed |-> None]
    /\ iter = create_smallbank_playlist(0, 0, None)
    /\ pc = "idle" /\ loc = NoLoc /\ yielded = <<>> /\ nones = 0
    /\ reference = <<>> /\ run = 1

CodecInit ==
    /\ decoded = NotRead
    /\ \/ /\ cpc = "payloads"
          /\ records \in SeqsUpTo(SamplePayloads, MaxPlaylist)
          /\ doc = NoInput
       \/ /\ cpc = "written"
          /\ records = <<>>
          /\ doc \in HandInputs

InitCodec == GenIdle /\ CodecInit /\ ProcIdle

\* the payloads are converted and dumped, as generate_smallbank_playlist does
\* with those of the generator
EncodePlaylist ==
    /\ cpc = "payloads"
    /\ doc' = DumpedPlaylist(MapYaml(records))
    /\ cpc' = "dumped"
    /\ UNCHANGED <<records, decoded, genVars, procVars>>

\* read_smallbank_playlist on the playlist
ReadPlaylist ==
    /\ cpc \in {"dumped", "written"}
    /\ decoded' = read_smallbank_playlist(doc)
    /\ cpc' = IF cpc = "dumped" THEN "read_back" ELSE "read"
    /\ UNCHANGED <<records, doc, genVars, procVars>>

NextCodec == EncodePlaylist \/ ReadPlaylist

SpecCodec == InitCodec /\ [][NextCodec]_vars

\* C7: reading back the playlist made of a sequence of payloads gives that
\* sequence: the same payloads in the same order.
C7_RoundTrip == cpc = "read_back" => decoded = Ok(records)

C7_Witness ==
    /\ cpc = "read_back" /\ Len(records) = 2
    /\ records[1].payload_type = "TRANSACT_SAVINGS"
    /\ records[1].transact_savings.amount = I32_MIN
    /\ records[2].payload_type = "CREATE_ACCOUNT"
    /\ records[2].create_account.customer_id = U32_MAX

\* the first element of the playlist read has a transaction_type that is a
\* string but none of the six names, or has no transaction_type
FirstElementOfUnknownType ==
    /\ doc.read_ok /\ doc.scan_ok /\ doc.docs # <<>>
    /\ doc.docs[1].tag = "Array" /\ doc.docs[1].items # <<>>
    /\ LET y == doc.docs[1].items[1]
       IN  /\ y.tag = "Hash"
           /\ \/ ~HasKey(y.entries, YString("transaction_type"))
              \/ /\ Lookup(y.entries, YString("transaction_type")).tag = "String"
                 /\ Lookup(y.entries, YString("transaction_type")).s \notin
                        {"create_account", "deposit_checking", "write_check",
                         "transact_savings", "send_payment", "amalgamate"}

\* C8: reading a playlist with an element of unknown or of no transaction_type
\* returns the error UnknownTransactionType or MissingTransactionType.
C8_UnknownTypeIsAnError ==
    (cpc = "read" /\ FirstElementOfUnknownType) =>
        /\ decoded.kind = "Err"
        /\ decoded.error \in {"UnknownTransactionType", "MissingTransactionType"}

(***************************************************************************)
(* process_smallbank_playlist.  The encoder, the hash and the signer are   *)
(* collaborators: what they return stands for itself, and whether they     *)
(* fail is the choice of each run.                                         *)
(***************************************************************************)
\* message.write_to_bytes()
Bytes(message) == [bytes_of |-> message]

\* bytes_to_hex_str of the Sha512 of the bytes
Sha512Hex(bytes) == [sha512_hex_of |-> bytes]

\* signer.sign(bytes)
Signature(bytes) == [signed |-> bytes]

\* customer_id_address: the namespace, then the first 32 digits of the hash of
\* the decimal string of customer_id, which stands for itself
customer_id_address(customer_id) ==
    [namespace |-> "332514", hash_of_decimal |-> customer_id]

\* make_addresses taking the source of a payload with two customers only
make_addresses_SourceOnly(payload) ==
    CASE payload.payload_type = "CREATE_ACCOUNT" ->
            <<customer_id_address(get_create_account(payload).customer_id)>>
      [] payload.payload_type = "DEPOSIT_CHECKING" ->
            <<customer_id_address(get_deposit_checking(payload).customer_id)>>
      [] payload.payload_type = "WRITE_CHECK" ->
            <<customer_id_address(get_write_check(payload).customer_id)>>
      [] payload.payload_type = "TRANSACT_SAVINGS" ->
            <<customer_id_address(get_transact_savings(payload).customer_id)>>
      [] payload.payload_type = "SEND_PAYMENT" ->
            <<customer_id_address(get_send_payment(payload).source_customer_id)>>
      [] payload.payload_type = "AMALGAMATE" ->
            <<customer_id_address(get_amalgamate(payload).source_customer_id)>>

make_addresses(payload) ==
    CASE payload.payload_type = "CREATE_ACCOUNT" ->
            <<customer_id_address(get_create_account(payload).customer_id)>>
      [] payload.payload_type = "DEPOSIT_CHECKING" ->
            <<customer_id_address(get_deposit_checking(payload).customer_id)>>
      [] payload.payload_type = "WRITE_CHECK" ->
            <<customer_id_address(get_write_check(payload).customer_id)>>
      [] payload.payload_type = "TRANSACT_SAVINGS" ->
            <<customer_id_address(get_transact_savings(payload).customer_id)>>
      [] payload.payload_type = "SEND_PAYMENT" ->
            <<customer_id_address(get_send_payment(payload).source_customer_id),
              customer_id_address(get_send_payment(payload).dest_customer_id)>>
      [] payload.payload_type = "AMALGAMATE" ->
            <<customer_id_address(get_amalgamate(payload).source_customer_id),
              customer_id_address(get_amalgamate(payload).dest_customer_id)>>

\* format!("{}{}", elapsed.as_secs(), elapsed.subsec_nanos())
Nonce(elapsed) == Decimal(elapsed[1]) \o Decimal(elapsed[2])

\* the header the loop builds for a payload
TransactionHeader(payload, elapsed, pub_key_hex) ==
    [family_name |-> "smallbank",
     family_version |-> "1.0",
     nonce |-> Nonce(elapsed),
     inputs |-> make_addresses(payload),
     outputs |-> make_addresses(payload),
     payload_sha512 |-> Sha512Hex(Bytes(payload)),
     signer_pubkey |-> pub_key_hex,
     batcher_pubkey |-> pub_key_hex]

\* the transaction the loop builds for a payload
Transaction(payload, elapsed, pub_key_hex) ==
    [header |-> Bytes(TransactionHeader(payload, elapsed, pub_key_hex)),
     header_signature |-> Signature(Bytes(TransactionHeader(payload, elapsed, pub_key_hex))),
     payload |-> Bytes(payload)]

\* what the collaborators do in one pass of the loop
Outcomes == {"ok", "payload_encoding_fails", "header_encoding_fails", "signing_fails",
             "writing_fails"}

\* one pass of the loop that writes the transaction before it looks at the
\* result of the signer
LoopPass_WritesUnsigned(payload, elapsed, pub_key_hex, outcome) ==
    CASE outcome = "payload_encoding_fails" -> [error |-> "MessageError", written |-> <<>>]
      [] outcome = "header_encoding_fails" -> [error |-> "MessageError", written |-> <<>>]
      [] outcome = "signing_fails" ->
            [error |-> "SigningError",
             written |-> <<[Transaction(payload, elapsed, pub_key_hex)
                               EXCEPT !.header_signature = ""]>>]
      [] outcome = "writing_fails" -> [error |-> "MessageError", written |-> <<>>]
      [] outcome = "ok" ->
            [error |-> "", written |-> <<Transaction(payload, elapsed, pub_key_hex)>>]

\* one pass of the loop: the error a try! returns with, or "", and what the
\* pass has written to the output
LoopPass(payload, elapsed, pub_key_hex, outcome) ==
    CASE outcome = "payload_encoding_fails" -> [error |-> "MessageError", written |-> <<>>]
      [] outcome = "header_encoding_fails" -> [error |-> "MessageError", written |-> <<>>]
      [] outcome = "signing_fails" -> [error |-> "SigningError", written |-> <<>>]
      [] outcome = "writing_fails" -> [error |-> "MessageError", written |-> <<>>]
      [] outcome = "ok" ->
            [error |-> "", written |-> <<Transaction(payload, elapsed, pub_key_hex)>>]

\* the public key of the signing key, in hexadecimal
PubKeyHex == [pub_key_hex_of |-> "signing_key"]

\* readings of start.elapsed() the model takes
ElapsedReadings == {<<0, 5>>, <<1, 23>>, <<12, 3>>}

\* the order of time
NotBefore(a, b) == a[1] > b[1] \/ (a[1] = b[1] /\ a[2] >= b[2])

\* elements of the playlists the model hands to process_smallbank_playlist: one
\* of each type, and two that cannot be converted
ProcessElements ==
    {YamlFromPayload(WithData("CREATE_ACCOUNT",
        CreateAccountData(Wide(7), CustomerName(7), Wide(INITIAL_BALANCE), Wide(INITIAL_BALANCE)))),
     YamlFromPayload(WithData("DEPOSIT_CHECKING", AmountData(Wide(5), Wide(50)))),
     YamlFromPayload(WithData("WRITE_CHECK", AmountData(U32_MAX, Wide(AMOUNT_LOW)))),
     YamlFromPayload(WithData("TRANSACT_SAVINGS", AmountData(Wide(1), Wide(-5)))),
     YamlFromPayload(WithData("SEND_PAYMENT", SendPaymentData(Wide(2), Wide(0), Wide(199)))),
     YamlFromPayload(WithData("AMALGAMATE", AmalgamateData(Wide(0), Wide(5)))),
     yaml_map(<< <<"transaction_type", YString("unknown_op")>> >>),
     yaml_map(<< <<"transaction_type", YString("write_check")>>,
                 <<"customer_id", YInteger(Wide(5))>> >>)}

ProcessInputs ==
    {DumpedPlaylist(items) : items \in SeqsUpTo(ProcessElements, MaxPlaylist)}
    \cup {PlaylistInput(FALSE, TRUE, <<>>), PlaylistInput(TRUE, FALSE, <<>>),
          PlaylistInput(TRUE, TRUE, <<>>)}

ProcInit ==
    /\ input \in ProcessInputs
    /\ payloads = <<>>
    /\ ppc = "start"
    /\ result = [kind |-> "none"]
    /\ output = <<>>
    /\ clock = <<0, 0>>
    /\ pidx = 0
    /\ torn = FALSE

InitProcess == GenIdle /\ CodecIdle /\ ProcInit

\* lines 103-110: the playlist is read and the public key is got
ProcessStart ==
    /\ ppc = "start"
    /\ LET read == read_smallbank_playlist(input)
       IN  IF read.kind = "panic"
           THEN /\ ppc' = "panicked"
                /\ result' = read
                /\ UNCHANGED <<payloads, pidx>>
           ELSE IF read.kind = "Err"
           THEN /\ ppc' = "returned"
                /\ result' = read
                /\ UNCHANGED <<payloads, pidx>>
           ELSE \E pub_key_ok \in BOOLEAN :
                IF pub_key_ok
                THEN /\ ppc' = "loop"
                     /\ payloads' = read.v
                     /\ pidx' = 1
                     /\ UNCHANGED result
                ELSE /\ ppc' = "returned"
                     /\ result' = Err("SigningError")
                     /\ UNCHANGED <<payloads, pidx>>
    /\ UNCHANGED <<input, output, clock, torn, genVars, codecVars>>

\* lines 111-146: one pass of the loop
ProcessPayload ==
    /\ ppc = "loop"
    /\ pidx <= Len(payloads)
    /\ \E elapsed \in ElapsedReadings, outcome \in Outcomes :
         /\ NotBefore(elapsed, clock)
         /\ clock' = elapsed
         /\ LET pass == LoopPass(payloads[pidx], elapsed, PubKeyHex, outcome)
            IN  /\ output' = output \o pass.written
                \* a write that fails may have written a part of the transaction
                /\ torn' \in (IF outcome = "writing_fails" THEN BOOLEAN ELSE {FALSE})
                /\ IF pass.error # ""
                   THEN /\ ppc' = "returned"
                        /\ result' = Err(pass.error)
                        /\ UNCHANGED pidx
                   ELSE /\ pidx' = pidx + 1
                        /\ UNCHANGED <<ppc, result>>
    /\ UNCHANGED <<input, payloads, genVars, codecVars>>

\* line 148: Ok(()) after the last payload
ProcessEnd ==
    /\ ppc = "loop"
    /\ pidx > Len(payloads)
    /\ ppc' = "returned"
    /\ result' = Ok(<<>>)
    /\ UNCHANGED <<input, payloads, output, clock, pidx, torn, genVars, codecVars>>

NextProcess == ProcessStart \/ ProcessPayload \/ ProcessEnd

SpecProcess == InitProcess /\ [][NextProcess]_vars

\* the customer ids an element of the playlist names, in the order source,
\* destination
ElementIds(y) ==
    IF HasKey(y.entries, YString("customer_id"))
    THEN <<Lookup(y.entries, YString("customer_id")).i>>
    ELSE <<Lookup(y.entries, YString("source_customer_id")).i,
           Lookup(y.entries, YString("dest_customer_id")).i>>

\* the header a transaction written to the output carries
HeaderOf(txn) == txn.header.bytes_of

\* C9: the header of every transaction written has the same list as inputs and
\* as outputs: the addresses of the customer ids its playlist element names, one
\* for an element with a customer_id, two (source, destination) otherwise.
C9_Addresses ==
    \A k \in 1 .. Len(output) :
        LET ids == ElementIds(input.docs[1].items[k])
            h == HeaderOf(output[k])
        IN  /\ h.inputs = h.outputs
            /\ Len(h.inputs) = Len(ids)
            /\ \A j \in 1 .. Len(ids) :
                   h.inputs[j] = [namespace |-> "332514", hash_of_decimal |-> ids[j]]

C9_Witness ==
    /\ Len(output) = 2
    /\ Len(HeaderOf(output[1]).inputs) = 2
    /\ Len(HeaderOf(output[2]).inputs) = 1
    /\ payloads[1].payload_type = "SEND_PAYMENT"
    /\ payloads[2].payload_type = "CREATE_ACCOUNT"

\* C10: when a pass of the loop fails, process_smallbank_playlist returns that
\* error, and the output holds the transactions of the payloads before the
\* failing one, one for each, in the order of the playlist, and nothing else;
\* nothing is written once it has returned.
C10_FailFast ==
    /\ (ppc = "loop" \/ (ppc = "returned" /\ pidx >= 1)) =>
           /\ Len(output) = pidx - 1
           /\ \A k \in 1 .. Len(output) : output[k].payload = Bytes(payloads[k])
    /\ (ppc = "returned" /\ pidx >= 1 /\ pidx <= Len(payloads)) =>
           /\ result.kind = "Err"
           /\ result.error \in {"MessageError", "SigningError"}
    /\ (ppc = "returned" /\ pidx = 0) => output = <<>>
    /\ torn => (ppc = "returned" /\ result = Err("MessageError"))
    /\ (ppc = "returned" /\ result.kind = "Ok") => Len(output) = Len(payloads)

C10_Witness ==
    /\ ppc = "returned" /\ result = Err("SigningError")
    /\ Len(payloads) = 2 /\ pidx = 2 /\ Len(output) = 1

\* C11: two transactions written one after the other in a run, at different
\* readings of the elapsed time, carry different nonces.
C11_DistinctNonces ==
    [][(/\ Len(output) >= 1
        /\ Len(output') = Len(output) + 1
        /\ clock' # clock)
       => HeaderOf(output'[Len(output')]).nonce # HeaderOf(output[Len(output)]).nonce]_vars

\* reading the input succeeds, it scans as Yaml, its first document is an array
\* and every element of the array converts to a payload
WholePlaylistConverts ==
    /\ input.read_ok /\ input.scan_ok
    /\ input.docs # <<>>
    /\ input.docs[1].tag = "Array"
    /\ \A k \in 1 .. Len(input.docs[1].items) :
           PayloadFromYaml(input.docs[1].items[k]).kind = "payload"

\* C13: nothing is written to the output, whole or in part, unless the whole
\* playlist has been read and every element of it converted; when the reading,
\* the scanning or the conversion of any element fails, the output is empty.
C13_ReadBeforeWrite ==
    /\ (output # <<>> \/ torn \/ ppc = "loop") =>
           /\ WholePlaylistConverts
           /\ Len(payloads) = Len(input.docs[1].items)
    /\ (ppc \in {"returned", "panicked"} /\ ~WholePlaylistConverts) =>
           /\ output = <<>> /\ ~torn
           /\ result.kind \in {"Err", "panic"}

C13_Witness ==
    /\ ppc = "panicked"
    /\ output = <<>> /\ ~torn
    /\ input.read_ok /\ input.scan_ok
    /\ input.docs # <<>>
    /\ input.docs[1].tag = "Array"
    /\ Len(input.docs[1].items) = 2
    /\ PayloadFromYaml(input.docs[1].items[1]).kind = "payload"
    /\ PayloadFromYaml(input.docs[1].items[2]).kind = "panic"

====
